---- MODULE Spec2Model ----
(***************************************************************************)
(* FinanceApp server: the route layer (server/routes.ts) over the data     *)
(* access layer (server/storage.ts).  The relational store is modelled as  *)
(* four tables keyed by serial ids; every storage call is one atomic       *)
(* statement, and a handler with several awaited storage calls whose       *)
(* interleaving matters (register, create transaction) is split at the     *)
(* await into two steps.  The statistics of storage.ts (user stats,         *)
(* dashboard, monthly report, active goals) are operators over the tables, *)
(* applied by their routes to tables drawn from bounded sets of rows.      *)
(***************************************************************************)
EXTENDS Integers, FiniteSets, Sequences, TLC

\* ---------------------------------------------------------------- bounds
MaxInflight == 2

Emails == {"a@x", "b@x"}
Passwords == {"p", "q"}
Types == {"income", "expense"}
Slots == 1..MaxInflight

\* ------------------------------------------------------- request inputs
\* parseInt of a non-numeric path or body parameter
NaN == -1
\* req.body.goalId absent
NoGoalId == 0
\* a body or query field that is absent
Absent == "absent"
\* req.body.targetAmount absent (falsy)
NoAmount == 0

\* what the database does with a statement: it runs, it fails because the
\* relation does not exist, or it fails for another reason
NoFault == "none"
MissingRelation == "relation does not exist"
OtherFailure == "other failure"
Faults == {NoFault, MissingRelation, OtherFailure}

\* the request reads no clock
NoDate == [month |-> 0, year |-> 0]

NoToken == [kind |-> "none", userId |-> 0, email |-> ""]
BadToken == [kind |-> "bad", userId |-> 0, email |-> ""]
NoUser == [userId |-> 0, email |-> ""]

\* jwt.sign({ userId, email }, JWT_SECRET, { expiresIn: "7d" })
SignToken(id, email) == [kind |-> "jwt", userId |-> id, email |-> email]

\* bcrypt.hash / bcrypt.compare
Hash(p) == <<"bcrypt", p>>
Compare(p, h) == h = Hash(p)

\* ------------------------------------------------------ response bodies
MsgNoToken == "token missing"
MsgBadToken == "token invalid"
MsgEmailTaken == "user with this email already exists"
MsgBadCredentials == "invalid email or password"
MsgUserNotFound == "user with this email not found"
MsgResetSent == "reset instructions sent"
MsgServerError == "server error"
MsgValidation == "validation error"
MsgDeleteUserError == "user deletion error"
MsgCreateTxError == "transaction creation error"
MsgBadTxId == "invalid transaction id"
MsgTxNotFound == "transaction not found"
MsgForbidden == "access denied"
MsgBadCategoryId == "invalid category id"
MsgCategoryNotFound == "category not found"
MsgBadGoalId == "invalid goal id"
MsgGoalNotFound == "goal not found"
MsgGoalProgressError == "could not update goal progress"
MsgGoalsLoadError == "could not load goals"
MsgMissingGoals == "relation goals does not exist"
MsgMissingTransactions == "relation transactions does not exist"
MsgDbError == "database error"
MsgNone == ""

OpRegister == "POST /api/auth/register"
OpLogin == "POST /api/auth/login"
OpForgot == "POST /api/auth/forgot-password"
OpDeleteUser == "DELETE /api/user"
OpListTx == "GET /api/transactions"
OpCreateTx == "POST /api/transactions"
OpDeleteTx == "DELETE /api/transactions/:id"
OpListCat == "GET /api/categories"
OpCreateCat == "POST /api/categories"
OpDeleteCat == "DELETE /api/categories/:id"
OpListGoals == "GET /api/goals"
OpCreateGoal == "POST /api/goals"
OpPatchGoal == "PATCH /api/goals/:id"
OpDeleteGoal == "DELETE /api/goals/:id"
OpUserStats == "GET /api/user/stats"
OpDashboard == "GET /api/dashboard/stats"
OpReport == "GET /api/reports/monthly"
OpActiveGoals == "GET /api/goals/active"

VARIABLES
  users,         \* table users: id -> [email, password]
  transactions,  \* table transactions: id -> [userId, type, amount]
  categories,    \* table categories: id -> [userId, type]
  goals,         \* table goals: id -> [userId, targetAmount, currentSaved, completed]
  nextUserId, nextTxId, nextCategoryId, nextGoalId,   \* serial sequences
  issued,        \* the tokens jwt.sign has produced
  inflight,      \* requests suspended at an await, per slot
  req,           \* the request the last step served
  resp,          \* the response the last step sent
  progressSum    \* history: per stored goal, the sum of the amounts of the
                 \* updateGoalProgress statements that matched its row

store == <<users, transactions, categories, goals,
           nextUserId, nextTxId, nextCategoryId, nextGoalId>>
vars == <<users, transactions, categories, goals,
          nextUserId, nextTxId, nextCategoryId, nextGoalId,
          issued, inflight, req, resp, progressSum>>

Idle == [kind |-> "idle"]

\* no response is sent by a step that suspends at an await
NoResp == [status |-> 0, msg |-> "", body |-> {}, token |-> NoToken, detail |-> ""]

\* res.status(s).json({ message })
Resp(status, msg) ==
  [status |-> status, msg |-> msg, body |-> {}, token |-> NoToken, detail |-> MsgNone]

\* the request as the handler sees it
Req(op, tok, user, ran, id, email) ==
  [op |-> op, tok |-> tok, user |-> user, ran |-> ran, id |-> id, email |-> email,
   fault |-> NoFault, date |-> NoDate]

Remove(f, k) == [x \in DOMAIN f \ {k} |-> f[x]]
Insert(f, k, v) == [x \in DOMAIN f \cup {k} |-> IF x = k THEN v ELSE f[x]]

FreeSlots == {s \in Slots : inflight[s] = Idle}

\* ----------------------------------------------------------- storage.ts
getUserByEmail(email) ==
  {id \in DOMAIN users : users[id].email = email}

\* users.email carries a unique constraint: the insert throws on a duplicate
EmailUnique(email) == getUserByEmail(email) = {}

createUser(email, hashed) ==
  Insert(users, nextUserId, [email |-> email, password |-> hashed])

getUserTransactions(userId) ==
  {id \in DOMAIN transactions : transactions[id].userId = userId}

createTransaction(userId, type, amount) ==
  Insert(transactions, nextTxId, [userId |-> userId, type |-> type, amount |-> amount])

deleteTransactionNoRow(id) == transactions

deleteTransaction(id) == Remove(transactions, id)

getUserCategories(userId, type) ==
  {id \in DOMAIN categories :
     /\ categories[id].userId = userId
     /\ type # Absent => categories[id].type = type}

createCategory(userId, type) ==
  Insert(categories, nextCategoryId, [userId |-> userId, type |-> type])

deleteCategory(id) == Remove(categories, id)

getUserGoals(userId) ==
  {id \in DOMAIN goals : goals[id].userId = userId}

\* the message of the error the goals select throws
GoalsSelectError(fault) ==
  IF fault = MissingRelation THEN MsgMissingGoals ELSE MsgDbError

\* getUserGoals with its try/catch: the rows, an empty list when the error
\* message names the missing goals relation, else a new error
getUserGoalsCaught(userId, fault) ==
  IF fault = NoFault
    THEN [threw |-> FALSE, rows |-> getUserGoals(userId), message |-> MsgNone]
  ELSE IF GoalsSelectError(fault) = MsgMissingGoals
    THEN [threw |-> FALSE, rows |-> {}, message |-> MsgNone]
  ELSE [threw |-> TRUE, rows |-> {}, message |-> MsgGoalsLoadError]

\* getUserTransactions has no try/catch: the error of the select propagates
getUserTransactionsCaught(userId, fault) ==
  IF fault = NoFault
    THEN [threw |-> FALSE, rows |-> getUserTransactions(userId), message |-> MsgNone]
  ELSE [threw |-> TRUE, rows |-> {},
        message |-> IF fault = MissingRelation THEN MsgMissingTransactions
                    ELSE MsgDbError]

\* the defaults of the columns an insert into goals does not set
GoalDefaults == [currentSaved |-> 0, completed |-> FALSE]

\* currentSaved and completed take the column defaults
createGoal(userId, targetAmount) ==
  Insert(goals, nextGoalId, [userId |-> userId, targetAmount |-> targetAmount,
                              currentSaved |-> GoalDefaults.currentSaved,
                              completed |-> GoalDefaults.completed])

\* update goals set <the fields given> where id = :id
updateGoal(id, targetAmount, completed) ==
  [g \in DOMAIN goals |->
     IF g # id THEN goals[g]
     ELSE [goals[g] EXCEPT
             !.targetAmount = IF targetAmount = NoAmount THEN @ ELSE targetAmount,
             !.completed = IF completed = Absent THEN @ ELSE completed = "true"]]

deleteGoal(id) == Remove(goals, id)

updateGoalProgressOverwrite(goalId, amount) ==
  [g \in DOMAIN goals |->
     IF g = goalId THEN [goals[g] EXCEPT !.currentSaved = amount]
     ELSE goals[g]]

updateGoalProgressAutoComplete(goalId, amount) ==
  [g \in DOMAIN goals |->
     IF g = goalId
       THEN [goals[g] EXCEPT !.currentSaved = @ + amount,
                             !.completed = goals[g].currentSaved + amount
                                             >= goals[g].targetAmount]
     ELSE goals[g]]

\* update goals set current_saved = current_saved + :amount where id = :goalId
updateGoalProgress(goalId, amount) ==
  [g \in DOMAIN goals |->
     IF g = goalId THEN [goals[g] EXCEPT !.currentSaved = @ + amount]
     ELSE goals[g]]

\* goals.target_date is NULL; a targetDate is otherwise a day number
NoTargetDate == 0

RECURSIVE NewestFirst(_)
\* order by created_at desc, as the sequence of ids: a goal's createdAt is
\* the time of its insert, so it grows with the serial id
NewestFirst(S) ==
  IF S = {} THEN <<>>
  ELSE LET newest == CHOOSE g \in S : \A h \in S : g >= h
       IN <<newest>> \o NewestFirst(S \ {newest})

getActiveGoalsReached(userId, today) ==
  NewestFirst({g \in DOMAIN goals :
                 /\ goals[g].userId = userId
                 /\ goals[g].targetAmount >= goals[g].currentSaved
                 /\ \/ goals[g].targetDate = NoTargetDate
                    \/ goals[g].targetDate >= today})

\* getActiveGoals; today is the day of new Date()
getActiveGoals(userId, today) ==
  NewestFirst({g \in DOMAIN goals :
                 /\ goals[g].userId = userId
                 /\ goals[g].targetAmount > goals[g].currentSaved
                 /\ \/ goals[g].targetDate = NoTargetDate
                    \/ goals[g].targetDate >= today})

\* ------------------------------------------------- storage.ts: statistics
\* The statistics read columns of a transaction that the handlers above do
\* not: category, date (as [month, year]) and ecoImpact.  Amounts and CO2
\* figures are whole numbers.

\* transactions.eco_impact is NULL
NoEco == -1

RECURSIVE SumOf(_, _)
\* array.reduce((sum, t) => sum + f(t), 0)
SumOf(f, S) ==
  IF S = {} THEN 0
  ELSE LET x == CHOOSE x \in S : TRUE
       IN f[x] + SumOf(f, S \ {x})

\* Math.round(num / den) for den > 0: halves round towards plus infinity
Round(num, den) == (2 * num + den) \div (2 * den)

\* Math.max(0, x)
Max0(x) == IF x > 0 THEN x ELSE 0

\* parseFloat(t.ecoImpact || '0')
EcoOf(t) == IF t.ecoImpact = NoEco THEN 0 ELSE t.ecoImpact

\* the reduce over ecoImpact of the rows ids
TotalCo2(ids) == SumOf([id \in ids |-> EcoOf(transactions[id])], ids)

\* the reduce over amount of the rows of ids that have the type
TotalAmount(ids, type) ==
  LET sel == {id \in ids : transactions[id].type = type}
  IN SumOf([id \in sel |-> transactions[id].amount], sel)

userStatsRatingShifted(totalCo2) ==
  IF totalCo2 <= 50 THEN "A+"
  ELSE IF totalCo2 < 100 THEN "A"
  ELSE IF totalCo2 < 200 THEN "B+"
  ELSE IF totalCo2 < 300 THEN "B"
  ELSE IF totalCo2 < 500 THEN "C+"
  ELSE "C"

\* getUserStats: let ecoRating = 'N/A'; if (totalCo2 < 50) ... else 'C'
userStatsRating(totalCo2) ==
  IF totalCo2 < 50 THEN "A+"
  ELSE IF totalCo2 < 100 THEN "A"
  ELSE IF totalCo2 < 200 THEN "B+"
  ELSE IF totalCo2 < 300 THEN "B"
  ELSE IF totalCo2 < 500 THEN "C+"
  ELSE "C"

\* getDashboardStats: the same chain
dashboardRating(totalCo2) ==
  IF totalCo2 < 50 THEN "A+"
  ELSE IF totalCo2 < 100 THEN "A"
  ELSE IF totalCo2 < 200 THEN "B+"
  ELSE IF totalCo2 < 300 THEN "B"
  ELSE IF totalCo2 < 500 THEN "C+"
  ELSE "C"

\* getMonthlyReport: the same chain
monthlyRating(totalCo2) ==
  IF totalCo2 < 50 THEN "A+"
  ELSE IF totalCo2 < 100 THEN "A"
  ELSE IF totalCo2 < 200 THEN "B+"
  ELSE IF totalCo2 < 300 THEN "B"
  ELSE IF totalCo2 < 500 THEN "C+"
  ELSE "C"

\* getUserStats (accountAge, which reads the clock, is left out)
getUserStats(userId) ==
  LET ids == getUserTransactions(userId)
  IN [totalTransactions |-> Cardinality(ids),
      ecoRating |-> userStatsRating(TotalCo2(ids))]

\* where user_id = :userId and extract(month from date) = :month
\*   and extract(year from date) = :year
MonthlyTransactions(userId, month, year) ==
  {id \in DOMAIN transactions :
     /\ transactions[id].userId = userId
     /\ transactions[id].date.month = month
     /\ transactions[id].date.year = year}

dashboardTransactionsAnyYear(userId, now) ==
  {id \in DOMAIN transactions :
     /\ transactions[id].userId = userId
     /\ transactions[id].date.month = now.month}

\* the rows getDashboardStats selects; now is new Date()
dashboardTransactions(userId, now) ==
  MonthlyTransactions(userId, now.month, now.year)

\* getDashboardStats
getDashboardStats(userId, now) ==
  LET ids == dashboardTransactions(userId, now)
      income == TotalAmount(ids, "income")
      expenses == TotalAmount(ids, "expense")
      totalCo2 == TotalCo2(ids)
  IN [totalBalance |-> income - expenses,
      monthlyIncome |-> income,
      monthlyExpenses |-> expenses,
      ecoRating |-> dashboardRating(totalCo2),
      co2Reduction |-> Max0(Round((500 - totalCo2) * 100, 500)),
      totalTransactions |-> Cardinality(ids)]

\* the reduce into expensesByCategory: per category of an expense row of
\* ids, the sum of the amounts
expensesByCategory(ids) ==
  LET sel == {id \in ids : transactions[id].type = "expense"}
  IN [c \in {transactions[id].category : id \in sel} |->
        LET rows == {id \in sel : transactions[id].category = c}
        IN SumOf([id \in rows |-> transactions[id].amount], rows)]

\* the position of a category in Object.entries: the keys are in insertion
\* order, and the select is taken to return the rows in id order
EntryOrder(ids, c) ==
  LET rows == {id \in ids : transactions[id].type = "expense"
                             /\ transactions[id].category = c}
  IN CHOOSE i \in rows : \A j \in rows : i <= j

RECURSIVE SortSlice(_, _, _, _)
\* .sort((a, b) => b.amount - a.amount).slice(0, k) over the categories S,
\* as the sequence of categories; the sort is stable
SortSlice(byCat, ids, S, k) ==
  IF S = {} \/ k = 0 THEN <<>>
  ELSE LET first == CHOOSE c \in S : \A d \in S :
                      \/ byCat[c] > byCat[d]
                      \/ byCat[c] = byCat[d] /\ EntryOrder(ids, c) <= EntryOrder(ids, d)
       IN <<first>> \o SortSlice(byCat, ids, S \ {first}, k - 1)

\* .slice(0, 6)
TopCount == 6

\* topCategories of getMonthlyReport
topCategories(ids) ==
  LET byCat == expensesByCategory(ids)
      expenses == TotalAmount(ids, "expense")
      order == SortSlice(byCat, ids, DOMAIN byCat, TopCount)
  IN [i \in 1..Len(order) |->
        [category |-> order[i],
         amount |-> byCat[order[i]],
         percentage |-> Round(byCat[order[i]] * 100, expenses)]]

\* getMonthlyReport (the fixed recommendations are left out)
getMonthlyReport(userId, month, year) ==
  LET ids == MonthlyTransactions(userId, month, year)
  IN [month |-> month,
      year |-> year,
      totalIncome |-> TotalAmount(ids, "income"),
      totalExpenses |-> TotalAmount(ids, "expense"),
      topCategories |-> topCategories(ids),
      ecoMetrics |-> [totalCo2 |-> TotalCo2(ids),
                      rating |-> monthlyRating(TotalCo2(ids))]]

\* ------------------------------------------------------------ routes.ts
authenticateTokenLax(tok) ==
  IF tok = NoToken THEN [status |-> 401, msg |-> MsgNoToken, user |-> NoUser]
  ELSE [status |-> 200, msg |-> MsgNone,
        user |-> [userId |-> tok.userId, email |-> tok.email]]

\* authenticateToken: 401 without a token, 403 when jwt.verify fails
\* (bad signature or expired), else next() with req.user = the payload
authenticateToken(tok) ==
  IF tok = NoToken THEN [status |-> 401, msg |-> MsgNoToken, user |-> NoUser]
  ELSE IF tok.kind # "jwt" THEN [status |-> 403, msg |-> MsgBadToken, user |-> NoUser]
  ELSE [status |-> 200, msg |-> MsgNone,
        user |-> [userId |-> tok.userId, email |-> tok.email]]

\* the tokens a client can present
TokenInputs == {NoToken, BadToken} \cup issued

\* the middleware answered: the handler does not run
AuthReject(op, tok) ==
  /\ authenticateToken(tok).status # 200
  /\ req' = Req(op, tok, NoUser, FALSE, NaN, "")
  /\ resp' = Resp(authenticateToken(tok).status, authenticateToken(tok).msg)
  /\ UNCHANGED <<store, issued, inflight, progressSum>>

\* POST /api/auth/register, up to the await of bcrypt.hash / createUser
RegisterCheck(email, password, valid) ==
  /\ req' = Req(OpRegister, NoToken, NoUser, TRUE, NaN, email)
  /\ IF ~valid
       THEN /\ resp' = Resp(400, MsgValidation)
            /\ UNCHANGED inflight
     ELSE IF getUserByEmail(email) # {}
       THEN /\ resp' = Resp(400, MsgEmailTaken)
            /\ UNCHANGED inflight
     ELSE /\ FreeSlots # {}
          /\ LET s == CHOOSE s \in FreeSlots : \A t \in FreeSlots : s <= t
             IN inflight' = [inflight EXCEPT ![s] =
                  [kind |-> "register", email |-> email, password |-> password]]
          /\ resp' = NoResp
  /\ UNCHANGED <<store, issued, progressSum>>

\* POST /api/auth/register, from storage.createUser to the response
RegisterInsert(s) ==
  /\ inflight[s].kind = "register"
  /\ LET r == inflight[s]
         tok == SignToken(nextUserId, r.email)
     IN /\ req' = Req(OpRegister, NoToken, NoUser, TRUE, NaN, r.email)
        /\ IF EmailUnique(r.email)
             THEN /\ users' = createUser(r.email, Hash(r.password))
                  /\ nextUserId' = nextUserId + 1
                  /\ issued' = issued \cup {tok}
                  /\ resp' = [Resp(200, MsgNone) EXCEPT !.token = tok,
                                                       !.body = {nextUserId}]
             ELSE /\ resp' = Resp(500, MsgServerError)
                  /\ UNCHANGED <<users, nextUserId, issued>>
  /\ inflight' = [inflight EXCEPT ![s] = Idle]
  /\ UNCHANGED <<transactions, categories, goals,
                 nextTxId, nextCategoryId, nextGoalId, progressSum>>

loginResponseLeaky(email, password) ==
  LET found == getUserByEmail(email)
  IN IF found = {} THEN Resp(404, MsgUserNotFound)
     ELSE LET id == CHOOSE i \in found : \A j \in found : i <= j
          IN IF ~Compare(password, users[id].password)
               THEN Resp(401, MsgBadCredentials)
             ELSE [Resp(200, MsgNone) EXCEPT !.token = SignToken(id, users[id].email),
                                             !.body = {id}]

\* the response of POST /api/auth/login to a body that passed loginSchema
loginResponse(email, password) ==
  LET found == getUserByEmail(email)
  IN IF found = {} THEN Resp(401, MsgBadCredentials)
     ELSE LET id == CHOOSE i \in found : \A j \in found : i <= j
          IN IF ~Compare(password, users[id].password)
               THEN Resp(401, MsgBadCredentials)
             ELSE [Resp(200, MsgNone) EXCEPT !.token = SignToken(id, users[id].email),
                                             !.body = {id}]

\* POST /api/auth/login
Login(email, password, valid) ==
  /\ req' = Req(OpLogin, NoToken, NoUser, TRUE, NaN, email)
  /\ resp' = IF ~valid THEN Resp(400, MsgValidation) ELSE loginResponse(email, password)
  /\ issued' = IF resp'.token = NoToken THEN issued ELSE issued \cup {resp'.token}
  /\ UNCHANGED <<store, inflight, progressSum>>

\* the response of POST /api/auth/forgot-password; sent is what
\* emailService.sendPasswordResetEmail returned
forgotPasswordResponse(email, sent) ==
  IF getUserByEmail(email) = {} THEN Resp(404, MsgUserNotFound)
  ELSE IF sent THEN Resp(200, MsgResetSent)
  ELSE Resp(200, MsgResetSent)

\* POST /api/auth/forgot-password
ForgotPassword(email, sent) ==
  /\ req' = Req(OpForgot, NoToken, NoUser, TRUE, NaN, email)
  /\ resp' = forgotPasswordResponse(email, sent)
  /\ UNCHANGED <<store, issued, inflight, progressSum>>

RoutesScopeWithDb ==
  {"storage", "insertUserSchema", "loginSchema", "insertTransactionSchema",
   "insertCategorySchema", "emailService", "z", "bcrypt", "jwt", "crypto",
   "goals", "JWT_SECRET", "db", "transactions", "categories", "users", "eq"}

\* the identifiers routes.ts binds at module level (its imports and consts)
RoutesScope ==
  {"storage", "insertUserSchema", "loginSchema", "insertTransactionSchema",
   "insertCategorySchema", "emailService", "z", "bcrypt", "jwt", "crypto",
   "goals", "JWT_SECRET"}

\* the free identifiers of the DELETE /api/user handler
DeleteUserRefs == {"db", "transactions", "categories", "users", "eq"}

\* DELETE /api/user: evaluating an unbound identifier throws a
\* ReferenceError inside the try block, which the catch answers with 500
DeleteUser(tok) ==
  \/ AuthReject(OpDeleteUser, tok)
  \/ /\ authenticateToken(tok).status = 200
     /\ LET userId == authenticateToken(tok).user.userId
        IN /\ req' = Req(OpDeleteUser, tok, authenticateToken(tok).user, TRUE, NaN, "")
           /\ IF DeleteUserRefs \subseteq RoutesScope
                THEN /\ transactions' = [i \in {j \in DOMAIN transactions :
                                           transactions[j].userId # userId}
                                           |-> transactions[i]]
                     /\ categories' = [i \in {j \in DOMAIN categories :
                                         categories[j].userId # userId}
                                         |-> categories[i]]
                     /\ users' = [i \in DOMAIN users \ {userId} |-> users[i]]
                     /\ resp' = Resp(204, MsgNone)
                ELSE /\ resp' = Resp(500, MsgDeleteUserError)
                     /\ UNCHANGED <<users, transactions, categories>>
     /\ UNCHANGED <<goals, nextUserId, nextTxId, nextCategoryId, nextGoalId,
                    issued, inflight, progressSum>>

\* the response of GET /api/transactions: the catch answers every error 500
listTransactionsResponse(userId, fault) ==
  LET r == getUserTransactionsCaught(userId, fault)
  IN IF r.threw THEN Resp(500, MsgServerError)
     ELSE [Resp(200, MsgNone) EXCEPT !.body = r.rows]

\* GET /api/transactions
ListTransactions(tok, fault) ==
  \/ AuthReject(OpListTx, tok)
  \/ /\ authenticateToken(tok).status = 200
     /\ req' = [Req(OpListTx, tok, authenticateToken(tok).user, TRUE, NaN, "")
                 EXCEPT !.fault = fault]
     /\ resp' = listTransactionsResponse(authenticateToken(tok).user.userId, fault)
     /\ UNCHANGED <<store, issued, inflight, progressSum>>

NamesGoalAnyType(goalId, type) == goalId # NoGoalId

\* whether POST /api/transactions goes on to storage.updateGoalProgress
NamesGoal(goalId, type) == goalId # NoGoalId /\ type = "income"

\* POST /api/transactions, up to the await of storage.updateGoalProgress
\* (to the response when no goal is to be updated)
CreateTransaction(tok, type, amount, goalId, valid) ==
  \/ AuthReject(OpCreateTx, tok)
  \/ /\ authenticateToken(tok).status = 200
     /\ LET user == authenticateToken(tok).user
        IN /\ req' = Req(OpCreateTx, tok, user, TRUE, goalId, "")
           /\ IF ~valid
                THEN /\ resp' = Resp(400, MsgValidation)
                     /\ UNCHANGED <<transactions, nextTxId, inflight>>
              ELSE /\ transactions' = createTransaction(user.userId, type, amount)
                   /\ nextTxId' = nextTxId + 1
                   /\ IF NamesGoal(goalId, type)
                        THEN /\ FreeSlots # {}
                             /\ LET s == CHOOSE s \in FreeSlots :
                                            \A t \in FreeSlots : s <= t
                                IN inflight' = [inflight EXCEPT ![s] =
                                     [kind |-> "tx", tok |-> tok, user |-> user,
                                      amount |-> amount, goalId |-> goalId,
                                      txId |-> nextTxId]]
                             /\ resp' = NoResp
                        ELSE /\ resp' = [Resp(200, MsgNone) EXCEPT !.body = {nextTxId}]
                             /\ UNCHANGED inflight
     /\ UNCHANGED <<users, categories, goals, nextUserId, nextCategoryId,
                    nextGoalId, issued, progressSum>>

catchCreateTransactionRollback(txId) == Remove(transactions, txId)

\* the transactions table after the catch block of POST /api/transactions
\* answered a failed goal update: the block only logs and responds
catchCreateTransaction(txId) == transactions

\* POST /api/transactions, from storage.updateGoalProgress to the response;
\* the statement fails on a goalId that parseInt turned into NaN
UpdateGoalOfTransaction(s) ==
  /\ inflight[s].kind = "tx"
  /\ LET r == inflight[s]
     IN /\ req' = Req(OpCreateTx, r.tok, r.user, TRUE, r.goalId, "")
        /\ IF r.goalId = NaN
             THEN /\ resp' = [Resp(500, MsgCreateTxError) EXCEPT
                                !.detail = MsgGoalProgressError]
                  /\ transactions' = catchCreateTransaction(r.txId)
                  /\ UNCHANGED <<goals, progressSum>>
             ELSE /\ goals' = updateGoalProgress(r.goalId, r.amount)
                  /\ progressSum' =
                       IF r.goalId \in DOMAIN goals
                         THEN [progressSum EXCEPT ![r.goalId] = @ + r.amount]
                         ELSE progressSum
                  /\ resp' = [Resp(200, MsgNone) EXCEPT !.body = {r.txId}]
                  /\ UNCHANGED transactions
  /\ inflight' = [inflight EXCEPT ![s] = Idle]
  /\ UNCHANGED <<users, categories, nextUserId, nextTxId,
                 nextCategoryId, nextGoalId, issued>>

\* DELETE /api/transactions/:id
DeleteTransaction(tok, id) ==
  \/ AuthReject(OpDeleteTx, tok)
  \/ /\ authenticateToken(tok).status = 200
     /\ LET user == authenticateToken(tok).user
        IN /\ req' = Req(OpDeleteTx, tok, user, TRUE, id, "")
           /\ IF id = NaN
                THEN resp' = Resp(400, MsgBadTxId) /\ UNCHANGED transactions
              ELSE IF id \notin DOMAIN transactions
                THEN resp' = Resp(404, MsgTxNotFound) /\ UNCHANGED transactions
              ELSE IF transactions[id].userId # user.userId
                THEN resp' = Resp(403, MsgForbidden) /\ UNCHANGED transactions
              ELSE /\ transactions' = deleteTransaction(id)
                   /\ resp' = Resp(204, MsgNone)
     /\ UNCHANGED <<users, categories, goals, nextUserId, nextTxId, nextCategoryId,
                    nextGoalId, issued, inflight, progressSum>>

\* GET /api/categories
ListCategories(tok, type) ==
  \/ AuthReject(OpListCat, tok)
  \/ /\ authenticateToken(tok).status = 200
     /\ req' = Req(OpListCat, tok, authenticateToken(tok).user, TRUE, NaN, "")
     /\ resp' = [Resp(200, MsgNone) EXCEPT
                   !.body = getUserCategories(authenticateToken(tok).user.userId, type)]
     /\ UNCHANGED <<store, issued, inflight, progressSum>>

\* POST /api/categories
CreateCategory(tok, type, valid) ==
  \/ AuthReject(OpCreateCat, tok)
  \/ /\ authenticateToken(tok).status = 200
     /\ LET user == authenticateToken(tok).user
        IN /\ req' = Req(OpCreateCat, tok, user, TRUE, NaN, "")
           /\ IF ~valid
                THEN /\ resp' = Resp(400, MsgValidation)
                     /\ UNCHANGED <<categories, nextCategoryId>>
              ELSE /\ categories' = createCategory(user.userId, type)
                   /\ nextCategoryId' = nextCategoryId + 1
                   /\ resp' = [Resp(200, MsgNone) EXCEPT !.body = {nextCategoryId}]
     /\ UNCHANGED <<users, transactions, goals, nextUserId, nextTxId, nextGoalId,
                    issued, inflight, progressSum>>

\* DELETE /api/categories/:id
DeleteCategory(tok, id) ==
  \/ AuthReject(OpDeleteCat, tok)
  \/ /\ authenticateToken(tok).status = 200
     /\ LET user == authenticateToken(tok).user
        IN /\ req' = Req(OpDeleteCat, tok, user, TRUE, id, "")
           /\ IF id = NaN
                THEN resp' = Resp(400, MsgBadCategoryId) /\ UNCHANGED categories
              ELSE IF id \notin DOMAIN categories
                THEN resp' = Resp(404, MsgCategoryNotFound) /\ UNCHANGED categories
              ELSE IF categories[id].userId # user.userId
                THEN resp' = Resp(403, MsgForbidden) /\ UNCHANGED categories
              ELSE /\ categories' = deleteCategory(id)
                   /\ resp' = Resp(204, MsgNone)
     /\ UNCHANGED <<users, transactions, goals, nextUserId, nextTxId, nextCategoryId,
                    nextGoalId, issued, inflight, progressSum>>

\* the response of GET /api/goals: the catch answers the error that
\* getUserGoals throws with an empty list, and any other error 500
listGoalsResponse(userId, fault) ==
  LET r == getUserGoalsCaught(userId, fault)
  IN IF ~r.threw THEN [Resp(200, MsgNone) EXCEPT !.body = r.rows]
     ELSE IF r.message = MsgGoalsLoadError THEN Resp(200, MsgNone)
     ELSE Resp(500, MsgServerError)

\* GET /api/goals
ListGoals(tok, fault) ==
  \/ AuthReject(OpListGoals, tok)
  \/ /\ authenticateToken(tok).status = 200
     /\ req' = [Req(OpListGoals, tok, authenticateToken(tok).user, TRUE, NaN, "")
                 EXCEPT !.fault = fault]
     /\ resp' = listGoalsResponse(authenticateToken(tok).user.userId, fault)
     /\ UNCHANGED <<store, issued, inflight, progressSum>>

\* POST /api/goals
CreateGoal(tok, targetAmount, valid) ==
  \/ AuthReject(OpCreateGoal, tok)
  \/ /\ authenticateToken(tok).status = 200
     /\ LET user == authenticateToken(tok).user
        IN /\ req' = Req(OpCreateGoal, tok, user, TRUE, NaN, "")
           /\ IF ~valid
                THEN /\ resp' = Resp(400, MsgValidation)
                     /\ UNCHANGED <<goals, nextGoalId>>
              ELSE /\ goals' = createGoal(user.userId, targetAmount)
                   /\ nextGoalId' = nextGoalId + 1
                   /\ resp' = [Resp(201, MsgNone) EXCEPT !.body = {nextGoalId}]
     /\ progressSum' = [g \in DOMAIN goals' |->
                          IF g \in DOMAIN goals THEN progressSum[g] ELSE 0]
     /\ UNCHANGED <<users, transactions, categories, nextUserId, nextTxId,
                    nextCategoryId, issued, inflight>>

\* PATCH /api/goals/:id
PatchGoal(tok, id, targetAmount, completed, valid) ==
  \/ AuthReject(OpPatchGoal, tok)
  \/ /\ authenticateToken(tok).status = 200
     /\ LET user == authenticateToken(tok).user
        IN /\ req' = Req(OpPatchGoal, tok, user, TRUE, id, "")
           /\ IF id = NaN
                THEN resp' = Resp(400, MsgBadGoalId) /\ UNCHANGED goals
              ELSE IF ~valid
                THEN resp' = Resp(400, MsgValidation) /\ UNCHANGED goals
              ELSE IF id \notin DOMAIN goals
                THEN resp' = Resp(404, MsgGoalNotFound) /\ UNCHANGED goals
              ELSE IF goals[id].userId # user.userId
                THEN resp' = Resp(403, MsgForbidden) /\ UNCHANGED goals
              ELSE /\ goals' = updateGoal(id, targetAmount, completed)
                   /\ resp' = [Resp(200, MsgNone) EXCEPT !.body = {id}]
     /\ UNCHANGED <<users, transactions, categories, nextUserId, nextTxId,
                    nextCategoryId, nextGoalId, issued, inflight, progressSum>>

\* DELETE /api/goals/:id
DeleteGoal(tok, id) ==
  \/ AuthReject(OpDeleteGoal, tok)
  \/ /\ authenticateToken(tok).status = 200
     /\ LET user == authenticateToken(tok).user
        IN /\ req' = Req(OpDeleteGoal, tok, user, TRUE, id, "")
           /\ IF id = NaN
                THEN resp' = Resp(400, MsgBadGoalId) /\ goals' = goals
              ELSE IF id \notin DOMAIN goals
                THEN resp' = Resp(404, MsgGoalNotFound) /\ goals' = goals
              ELSE IF goals[id].userId # user.userId
                THEN resp' = Resp(403, MsgForbidden) /\ goals' = goals
              ELSE /\ goals' = deleteGoal(id)
                   /\ resp' = Resp(204, MsgNone)
     /\ progressSum' = [g \in DOMAIN goals' |-> progressSum[g]]
     /\ UNCHANGED <<users, transactions, categories, nextUserId, nextTxId,
                    nextCategoryId, nextGoalId, issued, inflight>>

\* GET /api/user/stats
GetUserStats(tok) ==
  \/ AuthReject(OpUserStats, tok)
  \/ /\ authenticateToken(tok).status = 200
     /\ req' = Req(OpUserStats, tok, authenticateToken(tok).user, TRUE, NaN, "")
     /\ resp' = [Resp(200, MsgNone) EXCEPT
                   !.body = getUserStats(authenticateToken(tok).user.userId)]
     /\ UNCHANGED <<store, issued, inflight, progressSum>>

\* GET /api/dashboard/stats; now is the clock the storage call reads
GetDashboardStats(tok, now) ==
  \/ AuthReject(OpDashboard, tok)
  \/ /\ authenticateToken(tok).status = 200
     /\ req' = [Req(OpDashboard, tok, authenticateToken(tok).user, TRUE, NaN, "")
                 EXCEPT !.date = now]
     /\ resp' = [Resp(200, MsgNone) EXCEPT
                   !.body = getDashboardStats(authenticateToken(tok).user.userId, now)]
     /\ UNCHANGED <<store, issued, inflight, progressSum>>

\* parseInt(req.query.month) || new Date().getMonth() + 1: a month that is
\* absent, not a number or 0 gives the current one; the year likewise
NoNumber == 0
QueryOr(param, current) == IF param = NoNumber THEN current ELSE param

\* GET /api/reports/monthly
GetMonthlyReport(tok, month, year, now) ==
  \/ AuthReject(OpReport, tok)
  \/ /\ authenticateToken(tok).status = 200
     /\ req' = [Req(OpReport, tok, authenticateToken(tok).user, TRUE, NaN, "")
                 EXCEPT !.date = [month |-> QueryOr(month, now.month),
                                  year |-> QueryOr(year, now.year)]]
     /\ resp' = [Resp(200, MsgNone) EXCEPT
                   !.body = getMonthlyReport(authenticateToken(tok).user.userId,
                                             QueryOr(month, now.month),
                                             QueryOr(year, now.year))]
     /\ UNCHANGED <<store, issued, inflight, progressSum>>

\* GET /api/goals/active; today is the day the storage call reads
GetActiveGoals(tok, today) ==
  \/ AuthReject(OpActiveGoals, tok)
  \/ /\ authenticateToken(tok).status = 200
     /\ req' = [Req(OpActiveGoals, tok, authenticateToken(tok).user, TRUE, NaN, "")
                 EXCEPT !.date = [day |-> today]]
     /\ resp' = [Resp(200, MsgNone) EXCEPT
                   !.body = getActiveGoals(authenticateToken(tok).user.userId, today)]
     /\ UNCHANGED <<store, issued, inflight, progressSum>>

\* ------------------------------------------------------ the state machine
Init ==
  /\ users = <<>>
  /\ transactions = <<>>
  /\ categories = <<>>
  /\ goals = <<>>
  /\ nextUserId = 1
  /\ nextTxId = 1
  /\ nextCategoryId = 1
  /\ nextGoalId = 1
  /\ issued = {}
  /\ inflight = [s \in Slots |-> Idle]
  /\ req = Req("", NoToken, NoUser, FALSE, NaN, "")
  /\ resp = NoResp
  /\ progressSum = <<>>

Busy == Slots \ FreeSlots
GoalIdInputs(n) == {NoGoalId, NaN} \cup (1..n)
IdInputs(n) == {NaN} \cup (1..n)

\* Each step operator takes the bounds B of the specification it is used in:
\* B.emails, B.amounts (transaction amounts) and B.targets (goal target
\* amounts) are the input domains, B.faults what the database may do with a
\* listing, B.tx, B.categories and B.goals cap the serial sequences,
\* B.inflight the requests suspended at once.
AuthStep(B) ==
  \/ \E e \in B.emails, p \in Passwords, v \in BOOLEAN :
        /\ Cardinality(Busy) < B.inflight
        /\ RegisterCheck(e, p, v)
  \/ \E s \in Slots : RegisterInsert(s)
  \/ \E e \in B.emails, p \in Passwords, v \in BOOLEAN : Login(e, p, v)
  \/ \E e \in B.emails, sent \in BOOLEAN : ForgotPassword(e, sent)
  \/ \E tok \in TokenInputs : DeleteUser(tok)

\* registration alone, with one password
RegisterStep(B) ==
  \/ \E e \in B.emails, v \in BOOLEAN :
        /\ Cardinality(Busy) < B.inflight
        /\ RegisterCheck(e, "p", v)
  \/ \E s \in Slots : RegisterInsert(s)

TxStep(B) ==
  \/ \E tok \in TokenInputs, f \in B.faults : ListTransactions(tok, f)
  \/ \E tok \in TokenInputs, ty \in Types, a \in B.amounts,
        g \in GoalIdInputs(B.goals), v \in BOOLEAN :
        /\ nextTxId <= B.tx
        /\ Cardinality(Busy) < B.inflight
        /\ CreateTransaction(tok, ty, a, g, v)
  \/ \E s \in Slots : UpdateGoalOfTransaction(s)
  \/ \E tok \in TokenInputs, id \in IdInputs(B.tx) : DeleteTransaction(tok, id)

CategoryStep(B) ==
  \/ \E tok \in TokenInputs, ty \in Types \cup {Absent} : ListCategories(tok, ty)
  \/ \E tok \in TokenInputs, ty \in Types, v \in BOOLEAN :
        /\ nextCategoryId <= B.categories
        /\ CreateCategory(tok, ty, v)
  \/ \E tok \in TokenInputs, id \in IdInputs(B.categories) : DeleteCategory(tok, id)

GoalStep(B) ==
  \/ \E tok \in TokenInputs, f \in B.faults : ListGoals(tok, f)
  \/ \E tok \in TokenInputs, a \in B.targets, v \in BOOLEAN :
        /\ nextGoalId <= B.goals
        /\ CreateGoal(tok, a, v)
  \/ \E tok \in TokenInputs, id \in IdInputs(B.goals),
        a \in {NoAmount} \cup B.targets, c \in {Absent, "true", "false"},
        v \in BOOLEAN : PatchGoal(tok, id, a, c, v)
  \/ \E tok \in TokenInputs, id \in IdInputs(B.goals) : DeleteGoal(tok, id)

\* every endpoint, one user
FullRows == 1
FullInflight == 1
FullBounds ==
  [emails |-> {"a@x"}, amounts |-> {1}, targets |-> {1}, tx |-> FullRows,
   categories |-> FullRows, goals |-> FullRows, inflight |-> FullInflight,
   faults |-> {NoFault}]

Next ==
  \/ AuthStep(FullBounds)
  \/ TxStep(FullBounds)
  \/ CategoryStep(FullBounds)
  \/ GoalStep(FullBounds)

Spec == Init /\ [][Next]_vars

\* the authentication endpoints, two emails
AuthInflight == 2
AuthBounds ==
  [emails |-> Emails, amounts |-> {}, targets |-> {}, tx |-> 0, categories |-> 0,
   goals |-> 0, inflight |-> AuthInflight,
   faults |-> {NoFault}]

NextAuth == AuthStep(AuthBounds)

SpecAuth == Init /\ [][NextAuth]_vars

\* two users, their transactions and goals
OwnerRows == 1
OwnerInflight == 1
OwnerBounds ==
  [emails |-> Emails, amounts |-> {1}, targets |-> {1}, tx |-> OwnerRows,
   categories |-> 0, goals |-> OwnerRows, inflight |-> OwnerInflight,
   faults |-> {NoFault}]

NextOwner ==
  \/ RegisterStep(OwnerBounds)
  \/ TxStep(OwnerBounds)
  \/ GoalStep(OwnerBounds)

SpecOwner == Init /\ [][NextOwner]_vars

\* two users and their transactions, no goals
TxRows == 2
TxInflight == 1
TxBounds ==
  [emails |-> Emails, amounts |-> {1}, targets |-> {}, tx |-> TxRows,
   categories |-> 0, goals |-> 0, inflight |-> TxInflight,
   faults |-> {NoFault}]

NextTx ==
  \/ RegisterStep(TxBounds)
  \/ TxStep(TxBounds)

SpecTx == Init /\ [][NextTx]_vars

\* one user, concurrent well-formed transactions that name goals
ProgressStep(B) ==
  \/ \E tok \in issued, a \in B.targets :
        /\ nextGoalId <= B.goals
        /\ CreateGoal(tok, a, TRUE)
  \/ \E tok \in issued, ty \in Types, a \in B.amounts,
        g \in GoalIdInputs(B.goals) :
        /\ nextTxId <= B.tx
        /\ Cardinality(Busy) < B.inflight
        /\ CreateTransaction(tok, ty, a, g, TRUE)
  \/ \E s \in Slots : UpdateGoalOfTransaction(s)

ProgressTx == 2
ProgressGoals == 2
ProgressInflight == 2
ProgressBounds ==
  [emails |-> {"a@x"}, amounts |-> {1, 2}, targets |-> {1}, tx |-> ProgressTx,
   categories |-> 0, goals |-> ProgressGoals, inflight |-> ProgressInflight,
   faults |-> {NoFault}]

NextProgress ==
  \/ RegisterStep(ProgressBounds)
  \/ ProgressStep(ProgressBounds)

SpecProgress == Init /\ [][NextProgress]_vars

\* one user, the listings under every behaviour of the database
ListStep(B) ==
  \/ \E tok \in issued, f \in B.faults : ListTransactions(tok, f)
  \/ \E tok \in issued, f \in B.faults : ListGoals(tok, f)

FaultRows == 2
FaultInflight == 1
FaultBounds ==
  [emails |-> {"a@x"}, amounts |-> {1}, targets |-> {1}, tx |-> FaultRows,
   categories |-> 0, goals |-> FaultRows, inflight |-> FaultInflight,
   faults |-> Faults]

NextFault ==
  \/ RegisterStep(FaultBounds)
  \/ ProgressStep(FaultBounds)
  \/ ListStep(FaultBounds)

SpecFault == Init /\ [][NextFault]_vars

\* one user, a goal from creation through progress and edits to deletion
GoalEditStep(B) ==
  \/ \E tok \in issued, id \in IdInputs(B.goals),
        a \in {NoAmount} \cup B.targets, c \in {Absent, "true", "false"},
        v \in BOOLEAN : PatchGoal(tok, id, a, c, v)
  \/ \E tok \in issued, id \in IdInputs(B.goals) : DeleteGoal(tok, id)

LifeTx == 1
LifeGoals == 1
LifeInflight == 1
LifeBounds ==
  [emails |-> {"a@x"}, amounts |-> {1}, targets |-> {1, 2}, tx |-> LifeTx,
   categories |-> 0, goals |-> LifeGoals, inflight |-> LifeInflight,
   faults |-> {NoFault}]

NextLife ==
  \/ RegisterStep(LifeBounds)
  \/ ProgressStep(LifeBounds)
  \/ GoalEditStep(LifeBounds)

SpecLife == Init /\ [][NextLife]_vars

\* ------------------------------------------- the statistics, as functions
\* Each statistic is applied to every table of at most a few rows drawn
\* from a set of rows; two users are registered and hold their tokens.
ThisMonth == [month |-> 2, year |-> 2026]
LastMonth == [month |-> 1, year |-> 2026]
LastYear == [month |-> 2, year |-> 2025]
Dates == {ThisMonth, LastMonth, LastYear}

StatUsers ==
  [id \in {1, 2} |->
     [email |-> IF id = 1 THEN "a@x" ELSE "b@x", password |-> Hash("p")]]

InitStats ==
  /\ users = StatUsers
  /\ categories = <<>>
  /\ nextUserId = 3
  /\ nextCategoryId = 1
  /\ issued = {SignToken(id, StatUsers[id].email) : id \in DOMAIN StatUsers}
  /\ inflight = [s \in Slots |-> Idle]
  /\ req = Req("", NoToken, NoUser, FALSE, NaN, "")
  /\ resp = NoResp

\* the three statistics that grade the CO2 total
RatingStep(months, years, clock) ==
  \/ \E tok \in issued : GetUserStats(tok)
  \/ \E tok \in issued, now \in clock : GetDashboardStats(tok, now)
  \/ \E tok \in issued, m \in months, y \in years, now \in clock :
        GetMonthlyReport(tok, m, y, now)

\* CO2 figures on both sides of every threshold
EcoInputs == {NoEco, 49, 50, 99, 100, 199, 200, 299, 300, 499, 500}
EcoRows ==
  {[userId |-> 1, type |-> "expense", amount |-> 1, category |-> "food",
    date |-> d, ecoImpact |-> e] : d \in {ThisMonth, LastMonth}, e \in EcoInputs}
MaxEcoRows == 2

InitEco ==
  /\ InitStats
  /\ \E n \in 0..MaxEcoRows :
        /\ transactions \in [1..n -> EcoRows]
        /\ nextTxId = n + 1
  /\ goals = <<>>
  /\ nextGoalId = 1
  /\ progressSum = <<>>

NextEco == RatingStep({NoNumber, 1, 2}, {NoNumber, 2026}, {ThisMonth})

SpecEco == InitEco /\ [][NextEco]_vars

\* incomes of 100 and expenses of 40, of either user, in this month, in
\* another month, and in this month of another year
DashRows ==
  {[userId |-> u, type |-> ty, amount |-> IF ty = "income" THEN 100 ELSE 40,
    category |-> "food", date |-> d, ecoImpact |-> 0] :
      u \in {1, 2}, ty \in Types, d \in {ThisMonth, LastMonth}}
    \cup {[userId |-> 1, type |-> "income", amount |-> 100, category |-> "food",
            date |-> LastYear, ecoImpact |-> 0]}
MaxDashRows == 3

InitDash ==
  /\ InitStats
  /\ \E n \in 0..MaxDashRows :
        /\ transactions \in [1..n -> DashRows]
        /\ nextTxId = n + 1
  /\ goals = <<>>
  /\ nextGoalId = 1
  /\ progressSum = <<>>

NextDash ==
  \E tok \in TokenInputs, now \in {ThisMonth, LastMonth} : GetDashboardStats(tok, now)

SpecDash == InitDash /\ [][NextDash]_vars

\* user 1's expenses of this month: row i, when stored, is an expense of 1
\* or 7 in category ((i - 1) % ReportCategories) + 1 (category labels are
\* numbered); rows that are not stored have been deleted
ReportRows == 8
ReportCategories == 7
ReportAmounts == {1, 7}
ReportRow(i, amount) ==
  [userId |-> 1, type |-> "expense", amount |-> amount,
   category |-> ((i - 1) % ReportCategories) + 1, date |-> ThisMonth,
   ecoImpact |-> 0]

InitReport ==
  /\ InitStats
  /\ \E amt \in [1..ReportRows -> {0} \cup ReportAmounts] :
        transactions = [i \in {j \in 1..ReportRows : amt[j] > 0} |->
                          ReportRow(i, amt[i])]
  /\ nextTxId = ReportRows + 1
  /\ goals = <<>>
  /\ nextGoalId = 1
  /\ progressSum = <<>>

NextReport ==
  \E tok \in issued, m \in {NoNumber, 2}, y \in {NoNumber, 2026} :
    GetMonthlyReport(tok, m, y, ThisMonth)

SpecReport == InitReport /\ [][NextReport]_vars

\* goals with a target of 2 that have saved less, exactly 2, or more, and
\* are due yesterday, today, tomorrow or never; user 2 has one kind of goal
Today == 2
ActiveRows ==
  {[userId |-> 1, targetAmount |-> 2, currentSaved |-> c, completed |-> FALSE,
    targetDate |-> d] :
      c \in 1..3, d \in {NoTargetDate, Today - 1, Today, Today + 1}}
    \cup {[userId |-> 2, targetAmount |-> 2, currentSaved |-> 0,
            completed |-> FALSE, targetDate |-> NoTargetDate]}
MaxActiveGoals == 2
ActiveTx == 1
ActiveInflight == 1

InitActive ==
  /\ InitStats
  /\ transactions = <<>>
  /\ nextTxId = 1
  /\ \E n \in 0..MaxActiveGoals :
        /\ goals \in [1..n -> ActiveRows]
        /\ nextGoalId = n + 1
  /\ progressSum = [g \in DOMAIN goals |-> goals[g].currentSaved]

\* incomes of 1 that name a stored or a missing goal
IncomeStep ==
  \/ \E tok \in issued, g \in 1..MaxActiveGoals :
        /\ nextTxId <= ActiveTx
        /\ Cardinality(Busy) < ActiveInflight
        /\ CreateTransaction(tok, "income", 1, g, TRUE)
  \/ \E s \in Slots : UpdateGoalOfTransaction(s)

NextActive ==
  \/ \E tok \in issued : GetActiveGoals(tok, Today)
  \/ IncomeStep

SpecActive == InitActive /\ [][NextActive]_vars

\* ---------------------------------------------------------------- claims
ProtectedOps ==
  {OpDeleteUser, OpListTx, OpCreateTx, OpDeleteTx, OpListCat, OpCreateCat,
   OpDeleteCat, OpListGoals, OpCreateGoal, OpPatchGoal, OpDeleteGoal}

\* the rows of table t that the step changed or removed
Touched(t, tNext) ==
  {id \in DOMAIN t : id \notin DOMAIN tNext \/ tNext[id] # t[id]}

\* C1: a step served for a caller authenticated as U changes, removes or
\* returns no transaction, category or goal whose userId differs from U.
C1_StepIsolated ==
  (req'.ran /\ req'.op \in ProtectedOps) =>
    LET U == req'.user.userId
    IN /\ \A id \in Touched(transactions, transactions') : transactions[id].userId = U
       /\ \A id \in Touched(categories, categories') : categories[id].userId = U
       /\ \A id \in Touched(goals, goals') : goals[id].userId = U
       /\ req'.op = OpListTx => \A id \in resp'.body : transactions[id].userId = U
       /\ req'.op = OpListCat => \A id \in resp'.body : categories[id].userId = U
       /\ req'.op = OpListGoals => \A id \in resp'.body : goals[id].userId = U

C1_Isolation == [][C1_StepIsolated]_vars

\* C2: DELETE /api/transactions/:id by an authenticated caller answers 404
\* and changes nothing when no transaction has the id, answers 403 and
\* leaves the transaction stored when it belongs to another user, and
\* otherwise removes exactly that transaction and answers 204; an id once
\* removed is never stored again, so every later request for it answers 404.
C2_DeleteStep ==
  (req'.op = OpDeleteTx /\ req'.ran /\ req'.id # NaN) =>
    LET id == req'.id
    IN IF id \notin DOMAIN transactions
         THEN resp'.status = 404 /\ UNCHANGED store
       ELSE IF transactions[id].userId # req'.user.userId
         THEN resp'.status = 403 /\ UNCHANGED store
       ELSE /\ resp'.status = 204
            /\ DOMAIN transactions' = DOMAIN transactions \ {id}
            /\ \A j \in DOMAIN transactions' : transactions'[j] = transactions[j]
            /\ UNCHANGED <<users, categories, goals>>

C2_StaysGone ==
  \A id \in 1..(nextTxId - 1) :
    id \notin DOMAIN transactions => id \notin DOMAIN transactions'

C2_DeleteTransaction == [][C2_DeleteStep /\ C2_StaysGone]_vars

\* a removed transaction was asked for again and was not found
C2_Witness ==
  /\ req.op = OpDeleteTx
  /\ req.ran
  /\ resp.status = 404
  /\ req.id \in 1..(nextTxId - 1)

\* C3: a register request that is answered while its email belongs to a
\* stored user is answered 400 and creates no user, and at most one user
\* is stored per email.
C3_ConflictStep ==
  (req'.op = OpRegister /\ resp'.status # 0 /\ getUserByEmail(req'.email) # {}) =>
    (resp'.status = 400 /\ users' = users)

C3_OnePerEmail ==
  \A i, j \in DOMAIN users : users[i].email = users[j].email => i = j

C3_RegisterConflict == [][C3_ConflictStep]_vars /\ []C3_OnePerEmail

\* C4: forgot-password answers every email with the same response, whether
\* or not a user has the email and whether or not the mail was sent.
C4_ForgotGeneric ==
  \A e1, e2 \in Emails : \A s1, s2 \in BOOLEAN :
    forgotPasswordResponse(e1, s1) = forgotPasswordResponse(e2, s2)

\* whether a stored user has this email and this password
Matches(email, password) ==
  \E id \in DOMAIN users :
    users[id].email = email /\ users[id].password = Hash(password)

\* C5: login with an unknown email and login with a known email and a
\* password that does not match get the identical response, 401 with the
\* same message and no token; a token is returned only for a matching
\* email and password.
C5_LoginIndistinguishable ==
  /\ \A e1, e2 \in Emails : \A p1, p2 \in Passwords :
       (getUserByEmail(e1) = {} /\ getUserByEmail(e2) # {} /\ ~Matches(e2, p2)) =>
         /\ loginResponse(e1, p1) = loginResponse(e2, p2)
         /\ loginResponse(e1, p1).status = 401
         /\ loginResponse(e1, p1).token = NoToken
  /\ \A e \in Emails, p \in Passwords :
       loginResponse(e, p).token # NoToken <=> Matches(e, p)
  /\ (req.op = OpLogin /\ resp.status = 401) => resp = Resp(401, MsgBadCredentials)
  /\ (req.op = OpLogin /\ resp.token # NoToken) =>
       \E id \in DOMAIN users :
         users[id].email = req.email /\ resp.token = SignToken(id, req.email)

\* a known email was refused while another email is unknown
C5_Witness ==
  /\ req.op = OpLogin
  /\ resp.status = 401
  /\ getUserByEmail(req.email) # {}
  /\ \E e \in Emails : getUserByEmail(e) = {}

\* C6: on every protected endpoint a request without a token is answered
\* 401 and one whose token the server did not sign (or that expired) 403,
\* the handler does not run and nothing stored changes; the handler runs
\* only with a signed token, and then with the token's {userId, email}.
C6_AuthStep ==
  (req'.op \in ProtectedOps) =>
    /\ req'.tok = NoToken =>
         resp'.status = 401 /\ ~req'.ran /\ UNCHANGED <<store, issued, inflight>>
    /\ (req'.tok # NoToken /\ req'.tok \notin issued) =>
         resp'.status = 403 /\ ~req'.ran /\ UNCHANGED <<store, issued, inflight>>
    /\ req'.tok \in issued =>
         /\ req'.ran
         /\ req'.user = [userId |-> req'.tok.userId, email |-> req'.tok.email]
    /\ req'.ran => req'.tok \in issued

C7_DeleteStep ==
  (req'.op = OpDeleteUser /\ req'.ran) =>
    LET U == req'.user.userId
    IN /\ resp'.status = 204
       /\ U \notin DOMAIN users'
       /\ \A id \in DOMAIN transactions' : transactions'[id].userId # U
       /\ \A id \in DOMAIN categories' : categories'[id].userId # U
       /\ \A id \in DOMAIN users \ {U} : id \in DOMAIN users' /\ users'[id] = users[id]
       /\ \A id \in DOMAIN transactions : transactions[id].userId # U =>
            id \in DOMAIN transactions' /\ transactions'[id] = transactions[id]
       /\ \A id \in DOMAIN categories : categories[id].userId # U =>
            id \in DOMAIN categories' /\ categories'[id] = categories[id]

C7_DeleteAccount == [][C7_DeleteStep]_vars

C9_NoLostUpdate ==
  \A g \in DOMAIN goals : goals[g].currentSaved = progressSum[g]

\* the first transaction is still suspended before its goal update while a
\* later one has already incremented the same goal
C9_Witness ==
  \E s \in Slots :
    /\ inflight[s].kind = "tx"
    /\ inflight[s].txId = 1
    /\ inflight[s].goalId \in DOMAIN goals
    /\ progressSum[inflight[s].goalId] > 0

\* C10: a step changes a goal only by completing a POST /api/transactions
\* that named it with type income, adding exactly the amount; a request
\* answered 200 for an expense or without a goalId changes no goal.
C10_GoalStep ==
  /\ \A g \in DOMAIN goals :
       (g \notin DOMAIN goals' \/ goals'[g] # goals[g]) =>
         \E s \in Slots :
           /\ inflight[s].kind = "tx"
           /\ inflight'[s] = Idle
           /\ inflight[s].goalId = g
           /\ transactions[inflight[s].txId].type = "income"
           /\ goals'[g] = [goals[g] EXCEPT
                !.currentSaved = @ + transactions[inflight[s].txId].amount]
  /\ (req'.op = OpCreateTx /\ resp'.status = 200) =>
       LET t == transactions'[CHOOSE i \in resp'.body : TRUE]
           g == req'.id
       IN IF g \in DOMAIN goals /\ t.type = "income"
            THEN /\ goals'[g].currentSaved = goals[g].currentSaved + t.amount
                 /\ \A h \in DOMAIN goals \ {g} : goals'[h] = goals[h]
            ELSE goals' = goals

C10_GoalFrame == [][C10_GoalStep]_vars

\* an income transaction naming one of two goals was answered: the named
\* goal holds its amount and the other goal holds nothing
C10_Witness ==
  /\ req.op = OpCreateTx
  /\ resp.status = 200
  /\ req.id \in DOMAIN goals
  /\ goals[req.id].currentSaved > 0
  /\ \E h \in DOMAIN goals : h # req.id /\ goals[h].currentSaved = 0

\* the grade the thresholds 50, 100, 200, 300, 500 give a CO2 total
Grades == <<"A+", "A", "B+", "B", "C+", "C">>
Thresholds == <<50, 100, 200, 300, 500>>
Rank(c) == 1 + Cardinality({i \in DOMAIN Thresholds : c >= Thresholds[i]})
RankOf(grade) == CHOOSE i \in DOMAIN Grades : Grades[i] = grade

\* the CO2 totals of the stored rows, per user: all time and per month
StoredTotals ==
  {TotalCo2(getUserTransactions(u)) : u \in DOMAIN users}
    \cup {TotalCo2(MonthlyTransactions(u, d.month, d.year)) :
             u \in DOMAIN users, d \in Dates}

\* C11: userStats, dashboardStats and monthlyReport grade a CO2 total by the
\* same step function: below 50 A+, below 100 A, below 200 B+, below 300 B,
\* below 500 C+, else C (49 gives A+, 50 A, 499 C+, 500 C); a larger total
\* never gets a better grade, the grade is never N/A, and each response
\* carries the grade of the total of the rows it covers.
C11_EcoRating ==
  /\ \A c \in StoredTotals \cup {49, 50, 499, 500} :
       /\ userStatsRating(c) = Grades[Rank(c)]
       /\ dashboardRating(c) = userStatsRating(c)
       /\ monthlyRating(c) = userStatsRating(c)
       /\ userStatsRating(c) # "N/A"
  /\ \A c1, c2 \in StoredTotals :
       c1 <= c2 => RankOf(userStatsRating(c1)) <= RankOf(userStatsRating(c2))
  /\ userStatsRating(49) = "A+" /\ userStatsRating(50) = "A"
  /\ userStatsRating(499) = "C+" /\ userStatsRating(500) = "C"
  /\ (req.op = OpUserStats /\ req.ran) =>
       resp.body.ecoRating =
         Grades[Rank(TotalCo2(getUserTransactions(req.user.userId)))]
  /\ (req.op = OpDashboard /\ req.ran) =>
       resp.body.ecoRating =
         Grades[Rank(TotalCo2(MonthlyTransactions(req.user.userId,
                                                   req.date.month, req.date.year)))]
  /\ (req.op = OpReport /\ req.ran) =>
       resp.body.ecoMetrics.rating =
         Grades[Rank(TotalCo2(MonthlyTransactions(req.user.userId,
                                                   req.date.month, req.date.year)))]

\* the all-time total is exactly 50 and graded A, while this month's total
\* is below 50
C11_Witness ==
  /\ req.op = OpUserStats
  /\ req.ran
  /\ TotalCo2(getUserTransactions(req.user.userId)) = 50
  /\ resp.body.ecoRating = "A"
  /\ TotalCo2(MonthlyTransactions(req.user.userId, 2, 2026)) < 50

\* the caller's stored transactions of the given type dated in the month
\* and year the request read from the clock
CallerRows(type) ==
  {id \in DOMAIN transactions :
     /\ transactions[id].userId = req.user.userId
     /\ transactions[id].date = req.date
     /\ transactions[id].type = type}

\* C12: dashboardStats counts only the caller's transactions dated in the
\* current month and year: monthlyIncome is the sum of their income amounts,
\* monthlyExpenses the sum of their expense amounts, totalBalance the
\* difference and totalTransactions their number (one income of 100 and one
\* expense of 40 give 60 / 100 / 40).
C12_Dashboard ==
  (req.op = OpDashboard /\ req.ran) =>
    LET inc == CallerRows("income")
        exp == CallerRows("expense")
        income == SumOf([id \in inc |-> transactions[id].amount], inc)
        expenses == SumOf([id \in exp |-> transactions[id].amount], exp)
    IN /\ resp.status = 200
       /\ resp.body.monthlyIncome = income
       /\ resp.body.monthlyExpenses = expenses
       /\ resp.body.totalBalance = income - expenses
       /\ resp.body.totalTransactions = Cardinality(inc \cup exp)
       /\ (Cardinality(inc) = 1 /\ Cardinality(exp) = 1) =>
            /\ resp.body.totalBalance = 60
            /\ resp.body.monthlyIncome = 100
            /\ resp.body.monthlyExpenses = 40

\* the caller has one income and one expense this month and an income in
\* this month of another year: the dashboard shows 60 / 100 / 40
C12_Witness ==
  /\ req.op = OpDashboard
  /\ req.ran
  /\ req.date = ThisMonth
  /\ resp.body.totalBalance = 60
  /\ resp.body.monthlyIncome = 100
  /\ resp.body.monthlyExpenses = 40
  /\ \E id \in DOMAIN transactions :
       transactions[id].userId = req.user.userId /\ transactions[id].date = LastYear

\* the categories of the caller's expenses in the requested month, with
\* the sum of each
ReportedExpenses ==
  LET rows == {id \in DOMAIN transactions :
                 /\ transactions[id].userId = req.user.userId
                 /\ transactions[id].date = req.date
                 /\ transactions[id].type = "expense"}
  IN [c \in {transactions[id].category : id \in rows} |->
        LET of == {id \in rows : transactions[id].category = c}
        IN SumOf([id \in of |-> transactions[id].amount], of)]

\* topCategories has at most 6 entries in descending order of amount, each
\* a category of the caller's expenses with its sum, and no category left
\* out has a larger sum than one that is listed
C13_SortedCapped ==
  (req.op = OpReport /\ req.ran) =>
    LET top == resp.body.topCategories
        listed == {top[i].category : i \in DOMAIN top}
    IN /\ Len(top) <= 6
       /\ Len(top) = IF Cardinality(DOMAIN ReportedExpenses) < 6
                        THEN Cardinality(DOMAIN ReportedExpenses) ELSE 6
       /\ \A i \in DOMAIN top :
            /\ top[i].category \in DOMAIN ReportedExpenses
            /\ top[i].amount = ReportedExpenses[top[i].category]
       /\ \A i, j \in DOMAIN top : i < j =>
            (top[i].amount >= top[j].amount /\ top[i].category # top[j].category)
       /\ \A c \in DOMAIN ReportedExpenses \ listed : \A i \in DOMAIN top :
            ReportedExpenses[c] <= top[i].amount

\* C13: monthlyReport's topCategories has at most 6 entries, is sorted in
\* descending order of amount, contains the largest expense categories, and
\* the percentages of its entries sum to at most 100.
C13_TopCategories ==
  /\ C13_SortedCapped
  /\ (req.op = OpReport /\ req.ran) =>
       LET top == resp.body.topCategories
       IN SumOf([i \in DOMAIN top |-> top[i].percentage], DOMAIN top) <= 100

\* C14: activeGoals returns exactly the caller's goals with targetAmount >
\* currentSaved and targetDate absent or not before today, newest first; a
\* goal that has saved its target or more, or whose targetDate is before
\* today, is not returned.
C14_ActiveGoals ==
  (req.op = OpActiveGoals /\ req.ran) =>
    LET out == resp.body
        mine == {g \in DOMAIN goals : goals[g].userId = req.user.userId}
    IN /\ resp.status = 200
       /\ \A g \in mine :
            (\E i \in DOMAIN out : out[i] = g) <=>
              /\ goals[g].targetAmount > goals[g].currentSaved
              /\ goals[g].targetDate # NoTargetDate =>
                   goals[g].targetDate >= req.date.day
       /\ \A i \in DOMAIN out : out[i] \in mine
       /\ \A i, j \in DOMAIN out : i < j => out[i] > out[j]
       /\ \A i \in DOMAIN out :
            /\ goals[out[i]].currentSaved < goals[out[i]].targetAmount
            /\ ~(goals[out[i]].targetDate # NoTargetDate
                   /\ goals[out[i]].targetDate < req.date.day)

\* the caller has a goal due today that is listed and a goal that an
\* income has brought to its target and that is not listed
C14_Witness ==
  /\ req.op = OpActiveGoals
  /\ req.ran
  /\ \E i \in DOMAIN resp.body : goals[resp.body[i]].targetDate = req.date.day
  /\ \E g \in DOMAIN goals :
       /\ goals[g].userId = req.user.userId
       /\ goals[g].currentSaved = goals[g].targetAmount
       /\ goals[g].targetDate = NoTargetDate
       /\ \E t \in DOMAIN transactions : transactions[t].type = "income"

\* C15: when POST /api/transactions has inserted its transaction and the
\* goal update then fails, the request is answered 500, the inserted
\* transaction stays stored and no goal's currentSaved changes.
C15_FailStep ==
  \A s \in Slots :
    (inflight[s].kind = "tx" /\ inflight'[s] = Idle /\ inflight[s].goalId = NaN) =>
      /\ resp'.status = 500
      /\ req'.op = OpCreateTx
      /\ inflight[s].txId \in DOMAIN transactions
      /\ transactions' = transactions
      /\ goals' = goals

C15_NoCompensation == [][C15_FailStep]_vars

\* a transaction naming an unparsable goalId was answered 500 while its row
\* and a goal that saved nothing are stored
C15_Witness ==
  /\ req.op = OpCreateTx
  /\ req.id = NaN
  /\ resp.status = 500
  /\ \E t \in DOMAIN transactions : transactions[t].type = "income"
  /\ \E g \in DOMAIN goals : goals[g].currentSaved = 0

\* C16: a goal is created with completed = FALSE and currentSaved = 0; a
\* step changes its completed flag only by a PATCH /api/goals/:id on it
\* (reaching targetAmount does not), and its currentSaved only by the goal
\* update of a POST /api/transactions on it, never by PATCH; a deleted
\* goal is never stored again, and every later PATCH with a well-formed
\* body or DELETE on its id by an authenticated caller is answered 404.
C16_LifecycleStep ==
  /\ \A g \in DOMAIN goals' \ DOMAIN goals :
       /\ goals'[g].completed = FALSE
       /\ goals'[g].currentSaved = 0
       /\ req'.op = OpCreateGoal
  /\ \A g \in DOMAIN goals \cap DOMAIN goals' :
       /\ goals'[g].completed # goals[g].completed =>
            (req'.op = OpPatchGoal /\ req'.id = g /\ resp'.status = 200)
       /\ goals'[g].currentSaved # goals[g].currentSaved =>
            (req'.op = OpCreateTx /\ req'.id = g)
       /\ req'.op = OpPatchGoal => goals'[g].currentSaved = goals[g].currentSaved
  /\ \A g \in 1..(nextGoalId - 1) : g \notin DOMAIN goals => g \notin DOMAIN goals'
  /\ (/\ req'.op \in {OpPatchGoal, OpDeleteGoal}
      /\ req'.ran
      /\ req'.id \in 1..(nextGoalId - 1)
      /\ req'.id \notin DOMAIN goals) =>
        \/ resp'.status = 404
        \/ req'.op = OpPatchGoal /\ resp' = Resp(400, MsgValidation)

C16_GoalLifecycle == [][C16_LifecycleStep]_vars

\* a goal whose currentSaved has reached its targetAmount is stored with
\* completed still FALSE
C16_Witness ==
  \E g \in DOMAIN goals :
    /\ goals[g].currentSaved >= goals[g].targetAmount
    /\ ~goals[g].completed
    /\ req.op = OpCreateTx
    /\ req.id = g

\* a PATCH on the id of a deleted goal was answered 404
C16_WitnessDeleted ==
  /\ req.op = OpPatchGoal
  /\ req.ran
  /\ req.id \in 1..(nextGoalId - 1)
  /\ req.id \notin DOMAIN goals
  /\ resp.status = 404

\* C17: every response with status 500 carries a generic message and no
\* detail of the internal error.
C17_GenericErrors ==
  resp.status = 500 => (resp.msg # MsgNone /\ resp.detail = MsgNone)

\* C18: GET /api/goals and GET /api/transactions both answer 200 with an
\* empty list when the database reports that the relation is missing, and
\* 500 when it fails for any other reason.
C18_ListingFaults ==
  (req.op \in {OpListGoals, OpListTx} /\ req.ran) =>
    /\ req.fault = MissingRelation => (resp.status = 200 /\ resp.body = {})
    /\ req.fault = OtherFailure => resp.status = 500

====
